---- MODULE Spec2Model ----
(***************************************************************************)
(* ClientRedis (packages/microservices/client/client-redis.ts): the        *)
(* request/response correlation client over a publish/subscribe transport. *)
(* The model covers the connection lifecycle (connect, close, the retry    *)
(* strategy), publish (the transport half of send) with its subscribe      *)
(* acknowledgment and its teardown closure, and the response router.       *)
(* The transport (two redis handles per connect) is the environment: it    *)
(* fires connect events, invokes the retry strategy, acknowledges          *)
(* subscribes and delivers messages.                                       *)
(***************************************************************************)
EXTENDS Integers, Sequences, FiniteSets, TLC

VARIABLES
    options,                \* constructor argument: retryAttempts, retryDelay
    pubClient,              \* this.pubClient
    subClient,              \* this.subClient
    connection,             \* this.connection
    isExplicitlyTerminated, \* this.isExplicitlyTerminated
    routingMap,             \* this.routingMap: id -> callback
    clients,                \* the transport handles createClient has made
    attempts,               \* one entry per handle-creating connect: error$ and the promise
    calls,                  \* one entry per publish call: its closure and observations
    events,                 \* one entry per dispatchEvent call: its publish and its promise
    ret                     \* the last operation, its inputs and its outcome

vars == <<options, pubClient, subClient, connection, isExplicitlyTerminated,
          routingMap, clients, attempts, calls, events, ret>>

----------------------------------------------------------------------------
(* Bounds of the exploration. *)

MaxConnects == 2
MaxRetryConnects == 1
MaxCalls == 2
MaxEmits == 1
MaxAttempt == 3

----------------------------------------------------------------------------
(* Values. *)

Patterns == {"sum", "mul"}

\* References: a field that holds undefined, null or a transport handle.
UndefinedRef == [ref |-> "undefined", h |-> 0]
NullRef == [ref |-> "null", h |-> 0]
ClientRef(h) == [ref |-> "client", h |-> h]
Truthy(r) == r.ref = "client"

\* this.connection: undefined until the first connect, then the promise of an attempt.
NoConnection == [ref |-> "undefined", a |-> 0]
PromiseOf(a) == [ref |-> "promise", a |-> a]

\* An option of the options bag: absent, or a number.
Unset == [set |-> FALSE, v |-> 0]
Num(n) == [set |-> TRUE, v |-> n]
Falsy(o) == ~o.set \/ o.v = 0

\* The options the retry strategy is explored with (SpecRetry), and the one
\* configuration the protocol is explored with (Spec).
RetryAttemptsChoices == {Unset, Num(0), Num(2)}
RetryDelayChoices == {Unset, Num(50)}
AllOptions == [retryAttempts : RetryAttemptsChoices, retryDelay : RetryDelayChoices]
ProtocolOptions == {[retryAttempts |-> Num(1), retryDelay |-> Unset]}

ECONNREFUSED == "ECONNREFUSED"
ErrorCodes == {"none", ECONNREFUSED, "ETIMEDOUT"}

\* Return values of the retry strategy.
RetUndefined == [kind |-> "undefined", v |-> 0]
RetExhausted == [kind |-> "Error: Retry time exhausted", v |-> 0]
RetNumber(n) == [kind |-> "number", v |-> n]

getAckPatternName(pattern) == pattern \o "_ack"

getResPatternName(pattern) == pattern \o "_res"

\* ClientProxy.normalizePattern: a string route is its own canonical key.
normalizePattern(pattern) == pattern

\* ClientProxy.assignPacketId: a fresh id for every packet (the number of the call).
assignPacketId(cs) == Len(cs) + 1

\* The id of no call: a packet that never got one, a response nobody asked for.
NoId == 0

\* The handles of attempt a, in creation order (pubClient first).
PubOf(a) == 2 * a - 1
SubOf(a) == 2 * a
OwnerOf(h) == (h + 1) \div 2

NewClient == [ready |-> FALSE, quit |-> 0, ended |-> FALSE, listeners |-> 0, subs |-> {}]

NewAttempt == [promise |-> "pending", stopped |-> FALSE]

----------------------------------------------------------------------------
InitWith(opts) ==
    /\ options \in opts
    /\ pubClient = UndefinedRef
    /\ subClient = UndefinedRef
    /\ connection = NoConnection
    /\ isExplicitlyTerminated = FALSE
    /\ routingMap = <<>>
    /\ clients = <<>>
    /\ attempts = <<>>
    /\ calls = <<>>
    /\ events = <<>>
    /\ ret = [op |-> "new"]

----------------------------------------------------------------------------
(* close() *)

\* `client && client.quit()`
QuitIfPresent(cs, r) ==
    IF Truthy(r) THEN [cs EXCEPT ![r.h].quit = @ + 1] ELSE cs

ClosedRefMut(r) == r

\* `this.pubClient = this.subClient = null`: what a reference holds after close.
ClosedRef(r) == NullRef

closeMut ==
    /\ clients' = QuitIfPresent(QuitIfPresent(clients, pubClient), subClient)
    /\ pubClient' = ClosedRef(pubClient)
    /\ subClient' = ClosedRef(subClient)
    /\ isExplicitlyTerminated' = TRUE
    /\ routingMap' = <<>>
    /\ ret' = [op |-> "close", threw |-> FALSE]
    /\ UNCHANGED <<events, options, connection, attempts, calls>>

close ==
    /\ clients' = QuitIfPresent(QuitIfPresent(clients, pubClient), subClient)
    /\ pubClient' = ClosedRef(pubClient)
    /\ subClient' = ClosedRef(subClient)
    /\ isExplicitlyTerminated' = TRUE
    /\ ret' = [op |-> "close", threw |-> FALSE]
    /\ UNCHANGED <<events, options, connection, routingMap, attempts, calls>>

----------------------------------------------------------------------------
(* connect() *)

HasBothClientsMut == FALSE

\* `if (this.pubClient && this.subClient) return this.connection`
HasBothClients == Truthy(pubClient) /\ Truthy(subClient)

connectWithinMut(max) ==
    IF HasBothClients
    THEN /\ ret' = [op |-> "connect", created |-> FALSE, value |-> connection]
         /\ UNCHANGED <<events, options, pubClient, subClient, connection, isExplicitlyTerminated,
                        routingMap, clients, attempts, calls>>
    ELSE /\ Len(attempts) < max
         /\ LET a == Len(attempts) + 1 IN
            /\ clients' = clients \o <<NewClient, NewClient>>
            /\ pubClient' = ClientRef(PubOf(a))
            /\ subClient' = ClientRef(SubOf(a))
            /\ attempts' = Append(attempts, NewAttempt)
            /\ connection' = PromiseOf(a)
            /\ isExplicitlyTerminated' = FALSE
            /\ ret' = [op |-> "connect", created |-> TRUE, value |-> PromiseOf(a)]
         /\ UNCHANGED <<events, options, routingMap, calls>>

\* connect(), with the number of handle-creating connects explored capped at max.
connectWithin(max) ==
    IF HasBothClients
    THEN /\ ret' = [op |-> "connect", created |-> FALSE, value |-> connection]
         /\ UNCHANGED <<events, options, pubClient, subClient, connection, isExplicitlyTerminated,
                        routingMap, clients, attempts, calls>>
    ELSE /\ Len(attempts) < max
         /\ LET a == Len(attempts) + 1 IN
            /\ clients' = clients \o <<NewClient, NewClient>>
            /\ pubClient' = ClientRef(PubOf(a))
            /\ subClient' = ClientRef(SubOf(a))
            /\ attempts' = Append(attempts, NewAttempt)
            /\ connection' = PromiseOf(a)
            /\ ret' = [op |-> "connect", created |-> TRUE, value |-> PromiseOf(a)]
         /\ UNCHANGED <<events, options, isExplicitlyTerminated, routingMap, calls>>

connect == connectWithin(MaxConnects)

----------------------------------------------------------------------------
(* The transport fires CONNECT_EVENT on a handle: zip(pubConnect$, subClient$), *)
(* take(1), tap(() => this.subClient.on(MESSAGE_EVENT, ...)), toPromise().     *)

\* zip emits once both handles of the attempt have fired their connect event.
ZipEmits(cs, a) == cs[PubOf(a)].ready /\ cs[SubOf(a)].ready

\* The tap: `this.subClient.on(MESSAGE_EVENT, this.createResponseCallback())`, on
\* whatever this.subClient holds when the zip emits; a null reference throws.
TapTarget == subClient

ConnectEvent(h) ==
    /\ h \in DOMAIN clients
    /\ ~clients[h].ready
    /\ ~clients[h].ended
    /\ LET a == OwnerOf(h)
           cs == [clients EXCEPT ![h].ready = TRUE]
       IN IF attempts[a].promise = "pending" /\ ZipEmits(cs, a)
          THEN IF Truthy(TapTarget)
               THEN /\ clients' = [cs EXCEPT ![TapTarget.h].listeners = @ + 1]
                    /\ attempts' = [attempts EXCEPT ![a].promise = "resolved"]
                    /\ ret' = [op |-> "connectEvent", threw |-> FALSE]
               ELSE /\ clients' = cs
                    /\ attempts' = [attempts EXCEPT ![a].promise = "rejected"]
                    /\ ret' = [op |-> "connectEvent", threw |-> TRUE]
          ELSE /\ clients' = cs
               /\ attempts' = attempts
               /\ ret' = [op |-> "connectEvent", threw |-> FALSE]
    /\ UNCHANGED <<events, options, pubClient, subClient, connection, isExplicitlyTerminated,
                   routingMap, calls>>

----------------------------------------------------------------------------
(* createRetryStrategy(options, error$), invoked by the transport for a handle. *)

getOptionsProp(prop) == options[prop]

IsRefusedMut(code) == code = "ENOTFOUND"

\* `options.error && options.error.code === ECONNREFUSED`
IsRefused(code) == code = ECONNREFUSED

RetryExhaustedMut(attempt) ==
    \/ Falsy(options.retryAttempts)
    \/ attempt >= options.retryAttempts.v

\* `!retryAttempts || options.attempt > retryAttempts`
RetryExhausted(attempt) ==
    \/ Falsy(getOptionsProp("retryAttempts"))
    \/ attempt > getOptionsProp("retryAttempts").v

\* `retryDelay || 0`
RetryDelay ==
    IF Falsy(getOptionsProp("retryDelay")) THEN 0 ELSE getOptionsProp("retryDelay").v

RetryResult(attempt) ==
    IF isExplicitlyTerminated THEN RetUndefined
    ELSE IF RetryExhausted(attempt) THEN RetExhausted
    ELSE RetNumber(RetryDelay)

\* Subject.error: the first call stops the subject and notifies its observers;
\* the merged stream then errors and a pending promise rejects.
SubjectError(at) ==
    IF at.stopped THEN at
    ELSE [at EXCEPT !.stopped = TRUE,
                    !.promise = IF @ = "pending" THEN "rejected" ELSE @]

createRetryStrategy(h, attempt, code) ==
    /\ h \in DOMAIN clients
    /\ ~clients[h].ended
    /\ LET a == OwnerOf(h)
           value == RetryResult(attempt)
       IN /\ attempts' = IF IsRefused(code)
                         THEN [attempts EXCEPT ![a] = SubjectError(@)]
                         ELSE attempts
          \* the transport gives up on the handle unless it is handed a delay
          /\ clients' = [clients EXCEPT ![h].ended = value.kind # "number"]
          /\ ret' = [op |-> "retry", a |-> a, attempt |-> attempt, code |-> code,
                     value |-> value,
                     errorCalls |-> IF IsRefused(code) THEN 1 ELSE 0,
                     wasPending |-> attempts[a].promise = "pending"]
    /\ UNCHANGED <<events, options, pubClient, subClient, connection, isExplicitlyTerminated,
                   routingMap, calls>>

----------------------------------------------------------------------------
(* publish(partialPacket, callback): the transport half of send. *)

\* routingMap.set(id, callback)
MapSet(m, id, cb) == [x \in (DOMAIN m) \cup {id} |-> IF x = id THEN cb ELSE m[x]]

MapDeleteMut(m, id) == m

\* routingMap.delete(id)
MapDelete(m, id) == [x \in (DOMAIN m) \ {id} |-> m[x]]

NewCall(pattern) ==
    [pattern |-> pattern,   \* the normalized pattern the closures hold
     id |-> NoId,           \* packet.id
     subOn |-> 0,           \* the handle the subscribe was issued on
     subAck |-> "none",     \* none | pending | ok | err
     unsubQueued |-> FALSE, \* an unsubscribe of the channel is queued behind the subscribe
     pubChan |-> "",        \* the channel the request was published to
     tornDown |-> FALSE,    \* the teardown has been invoked
     deleted |-> FALSE,     \* routingMap.delete ran for this call
     terminal |-> FALSE]    \* the router handed the callback isDisposed: true

\* publish returned the teardown closure: it got as far as issuing the subscribe.
HasTeardown(call) == call.subAck # "none"

\* routingMap.set ran for the call.
Registered(call) == call.id # NoId

\* The callback of call c is callback c.
CallbackOf(c) == c

SetReachedMut(throws) == TRUE

\* routingMap.set (line 156) is reached only if lines 151-153 did not throw.
SetReached(throws) == ~throws

publish(pattern, throws) ==
    /\ Len(calls) < MaxCalls
    /\ LET c == Len(calls) + 1
           call == NewCall(normalizePattern(pattern))
       IN IF throws
          \* assignPacketId, normalizePattern or serialize threw: catch, callback({err})
          THEN /\ calls' = Append(calls, call)
               /\ routingMap' = IF SetReached(throws)
                                THEN MapSet(routingMap, assignPacketId(calls), CallbackOf(c))
                                ELSE routingMap
               /\ ret' = [op |-> "publish", c |-> c, teardown |-> FALSE, cbErr |-> 1,
                          thrown |-> "build"]
          ELSE LET id == assignPacketId(calls)
                   map == MapSet(routingMap, id, CallbackOf(c))
                   reg == [call EXCEPT !.id = id]
               IN /\ routingMap' = map
                  /\ IF Truthy(subClient)
                     THEN /\ calls' = Append(calls, [reg EXCEPT !.subOn = subClient.h,
                                                                !.subAck = "pending"])
                          /\ ret' = [op |-> "publish", c |-> c, teardown |-> TRUE, cbErr |-> 0,
                                     thrown |-> "none"]
                     \* this.subClient is null: TypeError, catch, callback({err})
                     ELSE /\ calls' = Append(calls, reg)
                          /\ ret' = [op |-> "publish", c |-> c, teardown |-> FALSE, cbErr |-> 1,
                                     thrown |-> "subscribe"]
    /\ UNCHANGED <<events, options, pubClient, subClient, connection, isExplicitlyTerminated,
                   clients, attempts>>

----------------------------------------------------------------------------
(* The acknowledgment of the subscribe: `(err) => { if (err) return; publish }`. *)

AckPublishesMut(err) == TRUE

\* `if (err) { return; }`
AckPublishes(err) == ~err

SubscribeAck(c, err) ==
    /\ c \in DOMAIN calls
    /\ calls[c].subAck = "pending"
    /\ LET call == calls[c]
           h == call.subOn
           acked == [call EXCEPT !.subAck = IF err THEN "err" ELSE "ok"]
       IN \* the transport confirms a subscribe only on a live connection
          /\ ~err => clients[h].ready /\ clients[h].quit = 0 /\ ~clients[h].ended
          /\ clients' = IF err \/ call.unsubQueued THEN clients
                        ELSE [clients EXCEPT ![h].subs = @ \cup {getResPatternName(call.pattern)}]
          /\ IF AckPublishes(err)
             THEN IF Truthy(pubClient)
                  THEN /\ calls' = [calls EXCEPT ![c] =
                                       [acked EXCEPT !.pubChan = getAckPatternName(call.pattern)]]
                       /\ ret' = [op |-> "subscribeAck", c |-> c, threw |-> FALSE]
                  \* this.pubClient is null: TypeError out of the acknowledgment
                  ELSE /\ calls' = [calls EXCEPT ![c] = acked]
                       /\ ret' = [op |-> "subscribeAck", c |-> c, threw |-> TRUE]
             ELSE /\ calls' = [calls EXCEPT ![c] = acked]
                  /\ ret' = [op |-> "subscribeAck", c |-> c, threw |-> FALSE]
    /\ UNCHANGED <<events, options, pubClient, subClient, connection, isExplicitlyTerminated,
                   routingMap, attempts>>

----------------------------------------------------------------------------
(* The teardown closure publish returns:                                    *)
(* `this.subClient.unsubscribe(responseChannel); this.routingMap.delete(id)` *)

\* unsubscribe on handle h: the channel goes, and so does the effect of every
\* subscribe to it still queued on h ahead of the unsubscribe.
Unsubscribed(cs, h, channel) ==
    [k \in DOMAIN cs |->
        IF cs[k].subAck = "pending" /\ cs[k].subOn = h
           /\ getResPatternName(cs[k].pattern) = channel
        THEN [cs[k] EXCEPT !.unsubQueued = TRUE]
        ELSE cs[k]]

\* The teardown reaches routingMap.delete only if unsubscribe did not throw.
TeardownDeletes == Truthy(subClient)

teardown(c) ==
    /\ c \in DOMAIN calls
    /\ HasTeardown(calls[c])
    /\ LET channel == getResPatternName(calls[c].pattern) IN
       IF TeardownDeletes
       THEN /\ clients' = IF Truthy(subClient)
                          THEN [clients EXCEPT ![subClient.h].subs = @ \ {channel}]
                          ELSE clients
            /\ calls' = [IF Truthy(subClient) THEN Unsubscribed(calls, subClient.h, channel)
                         ELSE calls
                         EXCEPT ![c].tornDown = TRUE, ![c].deleted = TRUE]
            /\ routingMap' = MapDelete(routingMap, calls[c].id)
            /\ ret' = [op |-> "teardown", c |-> c, again |-> calls[c].tornDown,
                       threw |-> ~Truthy(subClient)]
       \* this.subClient is null: TypeError before the delete
       ELSE /\ clients' = clients
            /\ calls' = [calls EXCEPT ![c].tornDown = TRUE]
            /\ routingMap' = routingMap
            /\ ret' = [op |-> "teardown", c |-> c, again |-> calls[c].tornDown,
                       threw |-> TRUE]
    /\ UNCHANGED <<events, options, pubClient, subClient, connection, isExplicitlyTerminated,
                   attempts>>

----------------------------------------------------------------------------
(* createResponseCallback(): the response router, run by every MESSAGE_EVENT *)
(* listener of the handle the message arrives on.                            *)

LookupMut(m, id) ==
    IF DOMAIN m = {} THEN NoId ELSE m[CHOOSE x \in DOMAIN m : \A y \in DOMAIN m : x >= y]

\* `this.routingMap.get(id)`
Lookup(m, id) == IF id \in DOMAIN m THEN m[id] ELSE NoId

IsTerminalMut(msg) == msg.isDisposed

\* `if (isDisposed || err)`
IsTerminal(msg) == msg.isDisposed \/ msg.err

\* What the callback is handed.
Result(msg) ==
    IF IsTerminal(msg)
    THEN [err |-> msg.err, response |-> msg.response, isDisposed |-> "true"]
    ELSE [err |-> msg.err, response |-> msg.response, isDisposed |-> "absent"]

Messages == [id : 0..MaxCalls, err : BOOLEAN, response : {3}, isDisposed : BOOLEAN]

Message(h, channel, msg) ==
    /\ h \in DOMAIN clients
    /\ clients[h].ready /\ clients[h].quit = 0 /\ ~clients[h].ended
    /\ channel \in clients[h].subs
    /\ clients[h].listeners > 0
    /\ LET cb == Lookup(routingMap, msg.id) IN
       IF cb = NoId
       THEN /\ calls' = calls
            /\ ret' = [op |-> "message", id |-> msg.id, disposed |-> msg.isDisposed,
                       cb |-> NoId, times |-> 0, result |-> Result(msg)]
       ELSE /\ calls' = [calls EXCEPT ![cb].terminal = @ \/ IsTerminal(msg)]
            /\ ret' = [op |-> "message", id |-> msg.id, disposed |-> msg.isDisposed,
                       cb |-> cb, times |-> clients[h].listeners, result |-> Result(msg)]
    /\ UNCHANGED <<events, options, pubClient, subClient, connection, isExplicitlyTerminated,
                   routingMap, clients, attempts>>

----------------------------------------------------------------------------
(* dispatchEvent(packet): the transport half of emit, and the acknowledgment *)
(* of its publish: `err => err ? reject(err) : resolve()`.                   *)

\* `this.pubClient.publish(pattern, ...)`: the channel an event is published to.
EmitChannel(pattern) == normalizePattern(pattern)

EmitSettlesMut(err) == "resolved"

\* `err ? reject(err) : resolve()`
EmitSettles(err) == IF err THEN "rejected" ELSE "resolved"

dispatchEvent(pattern) ==
    /\ Len(events) < MaxEmits
    /\ events' = Append(events,
                    IF Truthy(pubClient)
                    THEN [pattern |-> pattern, chan |-> EmitChannel(pattern),
                          on |-> pubClient.h, state |-> "pending", ack |-> "none"]
                    \* this.pubClient is null: TypeError in the executor, the promise rejects
                    ELSE [pattern |-> pattern, chan |-> "",
                          on |-> 0, state |-> "rejected", ack |-> "none"])
    /\ ret' = [op |-> "emit", e |-> Len(events) + 1]
    /\ UNCHANGED <<options, pubClient, subClient, connection, isExplicitlyTerminated,
                   routingMap, clients, attempts, calls>>

EmitAck(e, err) ==
    /\ e \in DOMAIN events
    /\ events[e].state = "pending"
    \* the transport confirms a publish only on a live connection
    /\ ~err => LET h == events[e].on IN
                  clients[h].ready /\ clients[h].quit = 0 /\ ~clients[h].ended
    /\ events' = [events EXCEPT ![e].state = EmitSettles(err),
                                ![e].ack = IF err THEN "err" ELSE "ok"]
    /\ ret' = [op |-> "emitAck", e |-> e, err |-> err]
    /\ UNCHANGED <<options, pubClient, subClient, connection, isExplicitlyTerminated,
                   routingMap, clients, attempts, calls>>

----------------------------------------------------------------------------
Handles == 1..(2 * MaxConnects)

Channels == {getResPatternName(normalizePattern(p)) : p \in Patterns}

Init == InitWith(ProtocolOptions)

Next ==
    \/ close
    \/ connect
    \/ \E h \in Handles : ConnectEvent(h)
    \/ \E pattern \in Patterns, throws \in BOOLEAN : publish(pattern, throws)
    \/ \E c \in 1..MaxCalls, err \in BOOLEAN : SubscribeAck(c, err)
    \/ \E c \in 1..MaxCalls : teardown(c)
    \/ \E h \in Handles, channel \in Channels, msg \in Messages : Message(h, channel, msg)

Spec == Init /\ [][Next]_vars

(* The retry strategy over all its inputs, with the lifecycle of the handles of
   MaxRetryConnects connects around it. *)
InitRetry == InitWith(AllOptions)

NextRetry ==
    \/ close
    \/ connectWithin(MaxRetryConnects)
    \/ \E h \in Handles : ConnectEvent(h)
    \/ \E h \in Handles, attempt \in 1..MaxAttempt, code \in ErrorCodes :
          createRetryStrategy(h, attempt, code)

SpecRetry == InitRetry /\ [][NextRetry]_vars

(* emit next to the connection lifecycle and to publish calls. *)
NextEmit ==
    \/ close
    \/ connect
    \/ \E h \in Handles : ConnectEvent(h)
    \/ \E pattern \in Patterns, throws \in BOOLEAN : publish(pattern, throws)
    \/ \E pattern \in Patterns : dispatchEvent(pattern)
    \/ \E e \in 1..MaxEmits, err \in BOOLEAN : EmitAck(e, err)

SpecEmit == Init /\ [][NextEmit]_vars

----------------------------------------------------------------------------
(* Properties. *)

Ids == 1..MaxCalls

InMap(id) == id \in DOMAIN routingMap

(* C1: the request of a call is on the ack channel <pattern>_ack only if the
   subscribe to <pattern>_res of that same call was acknowledged without error. *)
C1_SubscribeBeforePublish ==
    \A c \in DOMAIN calls :
        calls[c].pubChan # "" =>
            /\ calls[c].subAck = "ok"
            /\ calls[c].pubChan = getAckPatternName(calls[c].pattern)

C1_Witness ==
    \E c \in DOMAIN calls : calls[c].subAck = "ok" /\ calls[c].pubChan # ""

(* C2: once the teardown of a call has run, the routing table does not hold the
   call's id, and a response carrying that id does not invoke the call's callback. *)
C2_TeardownThenDropped ==
    \A c \in DOMAIN calls :
        calls[c].tornDown =>
            /\ ~InMap(calls[c].id)
            /\ ~(ret.op = "message" /\ ret.cb = CallbackOf(c))

(* C3, as stated: an id is a key of the routing table exactly if a request with
   that id was sent and has neither received its terminal response nor been
   cancelled by its teardown. *)
C3_Original ==
    \A id \in Ids :
        InMap(id) <=>
            \E c \in DOMAIN calls :
                /\ calls[c].id = id
                /\ ~calls[c].terminal
                /\ ~calls[c].deleted

(* C3, amended: an id is a key of the routing table exactly if a publish call
   registered it and no teardown of that call has reached its delete; a terminal
   response does not remove the key. *)
C3_RegisteredUntilDeleted ==
    \A id \in Ids :
        InMap(id) <=>
            \E c \in DOMAIN calls :
                /\ calls[c].id = id
                /\ Registered(calls[c])
                /\ ~calls[c].deleted

C3_Witness ==
    \E c \in DOMAIN calls : calls[c].terminal /\ InMap(calls[c].id)

(* C4: a response carrying id X invokes only the callback registered by the call
   that was assigned id X, whatever other calls are in flight. *)
C4_NoCrossTalk ==
    (ret.op = "message" /\ ret.cb # NoId) =>
        \E c \in DOMAIN calls :
            /\ calls[c].id = ret.id
            /\ ret.cb = CallbackOf(c)

C4_Witness ==
    /\ ret.op = "message"
    /\ ret.cb # NoId
    /\ Cardinality(DOMAIN routingMap) = 2
    /\ calls[1].pattern = calls[2].pattern

(* C5: a connect called while both handles exist creates no handle and no new
   attempt, and returns the memoized connection. *)
C5_ConnectIdempotent ==
    [][(ret'.op = "connect" /\ Truthy(pubClient) /\ Truthy(subClient)) =>
          /\ clients' = clients
          /\ attempts' = attempts
          /\ pubClient' = pubClient
          /\ subClient' = subClient
          /\ connection' = connection
          /\ ret'.value = connection]_vars

C5_Witness ==
    /\ ret.op = "connect"
    /\ ~ret.created
    /\ ret.value = connection
    /\ attempts[connection.a].promise = "pending"

(* C6, as stated: close raises no error, on a client that never connected it
   leaves the client state as it was, and a second close in a row changes
   nothing (both handles null, flag set, each handle quit at most once). *)
C6_Original ==
    [][ret'.op = "close" =>
          /\ ~ret'.threw
          /\ Len(attempts) = 0 =>
                /\ isExplicitlyTerminated' = isExplicitlyTerminated
                /\ Truthy(pubClient') = Truthy(pubClient)
                /\ Truthy(subClient') = Truthy(subClient)
                /\ UNCHANGED <<connection, routingMap, clients>>
          /\ ret.op = "close" =>
                UNCHANGED <<pubClient, subClient, connection, isExplicitlyTerminated,
                            routingMap, clients>>]_vars

(* C6, amended: close raises no error and leaves both handles null and the
   termination flag set, with each handle quit at most once; it changes neither
   the connection future nor the routing table; on a client that never connected
   it quits nothing but still sets the termination flag; a second close in a row
   changes nothing. *)
C6_CloseSafe ==
    [][ret'.op = "close" =>
          /\ ~ret'.threw
          /\ pubClient' = NullRef
          /\ subClient' = NullRef
          /\ isExplicitlyTerminated'
          /\ \A h \in DOMAIN clients' : clients'[h].quit <= 1
          /\ UNCHANGED <<connection, routingMap, attempts, calls>>
          /\ Len(attempts) = 0 => clients' = clients
          /\ ret.op = "close" =>
                UNCHANGED <<pubClient, subClient, connection, isExplicitlyTerminated,
                            routingMap, clients>>]_vars

C6_Witness ==
    /\ ret.op = "close"
    /\ Len(attempts) = 0
    /\ isExplicitlyTerminated
    /\ pubClient = NullRef

(* C7: the retry strategy returns undefined when the termination flag is set,
   else the exhaustion error when retryAttempts is unset or attempt exceeds it,
   else retryDelay, or 0 when retryDelay is unset. *)
C7_RetryTable ==
    ret.op = "retry" =>
        ret.value =
            IF isExplicitlyTerminated THEN RetUndefined
            ELSE IF ~options.retryAttempts.set \/ ret.attempt > options.retryAttempts.v
                 THEN RetExhausted
            ELSE IF options.retryDelay.set THEN RetNumber(options.retryDelay.v)
            ELSE RetNumber(0)

C7_Witness ==
    /\ ret.op = "retry"
    /\ ret.attempt = 1
    /\ options.retryAttempts = Num(2)
    /\ ret.value = RetNumber(50)

(* C8: a retry-strategy invocation whose last error is connection-refused puts
   the error on the error channel of its connect attempt once, and the connect
   future of that attempt, if it was pending, is rejected. *)
C8_RefusedFailsConnect ==
    (ret.op = "retry" /\ ret.code = ECONNREFUSED) =>
        /\ ret.errorCalls = 1
        /\ attempts[ret.a].stopped
        /\ attempts[ret.a].promise # "pending"
        /\ ret.wasPending => attempts[ret.a].promise = "rejected"

C8_Witness ==
    /\ ret.op = "retry"
    /\ ret.code = ECONNREFUSED
    /\ ret.wasPending
    /\ attempts[ret.a].promise = "rejected"

(* C9: a call whose subscribe was acknowledged with an error never publishes,
   its routing table entry stays registered until its teardown is invoked, and
   an invoked teardown has removed the entry. *)
C9_SubscribeError ==
    \A c \in DOMAIN calls :
        calls[c].subAck = "err" =>
            /\ calls[c].pubChan = ""
            /\ ~calls[c].tornDown => InMap(calls[c].id)
            /\ calls[c].tornDown => ~InMap(calls[c].id)

(* C10: whenever the teardown is invoked (before or after a response, a second
   time, after close) it raises no error and the routing table does not hold
   the call's id afterwards. *)
C10_TeardownAnyTime ==
    ret.op = "teardown" =>
        /\ ~ret.threw
        /\ ~InMap(calls[ret.c].id)

(* C11: when assigning the id, normalizing the pattern or serializing throws
   inside publish, the callback is handed an error synchronously, no teardown
   is returned, no subscribe and no publish is issued for the call, and the
   routing table holds no entry for the call's callback. *)
C11_BuildThrows ==
    (ret.op = "publish" /\ ret.thrown = "build") =>
        /\ ret.cbErr = 1
        /\ ~ret.teardown
        /\ calls[ret.c].subAck = "none"
        /\ calls[ret.c].pubChan = ""
        /\ \A id \in DOMAIN routingMap : routingMap[id] # CallbackOf(ret.c)

C11_Witness ==
    /\ ret.op = "publish"
    /\ ret.thrown = "build"
    /\ ret.cbErr = 1
    /\ Truthy(subClient)

(* C12: dispatchEvent publishes on the normalized pattern itself; its promise
   resolves exactly when the acknowledgment of that publish fires without an
   error and rejects when the acknowledgment carries one; neither dispatchEvent
   nor the acknowledgment touches the routing table, assigns an id or changes a
   subscription. *)
C12_EmitFrame ==
    [][/\ ret'.op \in {"emit", "emitAck"} =>
             UNCHANGED <<routingMap, calls, clients>>
       /\ (ret'.op = "emit" /\ Truthy(pubClient)) =>
             LET ev == events'[ret'.e] IN
                /\ ev.chan = normalizePattern(ev.pattern)
                /\ ev.state = "pending"
       /\ ret'.op = "emitAck" =>
             events'[ret'.e].state = IF ret'.err THEN "rejected" ELSE "resolved"
       /\ \A e \in DOMAIN events :
             (events[e].state # "resolved" /\ events'[e].state = "resolved") =>
                ret'.op = "emitAck" /\ ret'.e = e /\ ~ret'.err]_vars

C12_Witness ==
    /\ ret.op = "emitAck"
    /\ ~ret.err
    /\ events[ret.e].state = "resolved"
    /\ events[ret.e].chan = "sum"
    /\ DOMAIN routingMap # {}

(* C13: after a send on a connected client, whatever connects and closes came
   before it, a response {id of the call, response r, isDisposed: true} on the
   call's response channel invokes the call's callback exactly once, with
   {err: undefined, response: r, isDisposed: true}, and once the teardown has
   run the routing table does not hold the id. *)
C13_EndToEnd ==
    /\ (ret.op = "message" /\ ret.cb # NoId /\ ret.disposed /\ ~ret.result.err) =>
          /\ ret.times = 1
          /\ ret.result = [err |-> FALSE, response |-> 3, isDisposed |-> "true"]
    /\ \A c \in DOMAIN calls :
          \* the client is still on the handles the call was sent on
          (calls[c].terminal /\ calls[c].tornDown /\ subClient = ClientRef(calls[c].subOn))
             => ~InMap(calls[c].id)

(* The event loop keeps running: as long as some step of the client or of its
   handles is possible, one is taken. *)
SpecRetryFair == SpecRetry /\ WF_vars(NextRetry)

(* C14: a connect() promise that is pending when the retry strategy of one of
   its handles returns the 'Retry time exhausted' error is eventually settled. *)
C14_ConnectSettles ==
    \A a \in 1..MaxRetryConnects :
        [](( /\ ret.op = "retry" /\ ret.a = a /\ ret.value = RetExhausted
             /\ attempts[a].promise = "pending")
           => <>(a \in DOMAIN attempts /\ attempts[a].promise # "pending"))

(* C15: no handle carries more than one message listener, a handle carries one
   only when both handles of its own connect attempt have signalled ready, and
   the handles of an attempt whose promise was rejected carry none. *)
C15_ListenerOnce ==
    \A h \in DOMAIN clients :
        /\ clients[h].listeners <= 1
        /\ clients[h].listeners > 0 => ZipEmits(clients, OwnerOf(h))
        /\ attempts[OwnerOf(h)].promise = "rejected" => clients[h].listeners = 0

(* C16: the router hands a message whose id is in the routing table to that
   id's callback, with isDisposed: true if the message has isDisposed true or
   carries an err and with {err, response} and no isDisposed otherwise; for an
   id that is not in the routing table it invokes no callback; and it never
   changes the routing table. *)
C16_RouterDelivery ==
    [][ret'.op = "message" =>
          /\ routingMap' = routingMap
          /\ IF InMap(ret'.id)
             THEN /\ ret'.cb = routingMap[ret'.id]
                  /\ ret'.times >= 1
                  /\ ret'.result.response = 3
                  /\ ret'.result.isDisposed =
                        IF ret'.disposed \/ ret'.result.err THEN "true" ELSE "absent"
             ELSE /\ ret'.cb = NoId
                  /\ ret'.times = 0
                  /\ calls' = calls]_vars

C16_Witness ==
    /\ ret.op = "message"
    /\ ret.cb # NoId
    /\ ~ret.disposed
    /\ ret.result = [err |-> TRUE, response |-> 3, isDisposed |-> "true"]
    /\ \E id \in DOMAIN routingMap : id # ret.id

(* C17: connect, close and the ready signals of the handles leave the routing
   table as it was, keys and callbacks alike, so a close followed by a new
   connect neither adds, drops nor rebinds an entry. *)
C17_LifecycleFrame ==
    [][ret'.op \in {"connect", "close", "connectEvent"} => routingMap' = routingMap]_vars

\* a reconnect with an entry of a call sent on the earlier handles still there
C17_Witness ==
    /\ ret.op = "connect"
    /\ ret.created
    /\ isExplicitlyTerminated
    /\ \E c \in DOMAIN calls :
          /\ calls[c].subOn # 0
          /\ calls[c].subOn < subClient.h
          /\ InMap(calls[c].id)
          /\ routingMap[calls[c].id] = CallbackOf(c)

(* C18: a call in flight (subscribe acknowledged, entry in the routing table,
   its own teardown not run) on the handle the client still holds stays
   subscribed to its response channel <pattern>_res, whatever teardowns of
   other calls have run, so that a response for it is still delivered. *)
C18_TeardownIsolated ==
    \A c \in DOMAIN calls :
        ( /\ calls[c].subAck = "ok"
          /\ ~calls[c].tornDown
          /\ InMap(calls[c].id)
          /\ subClient = ClientRef(calls[c].subOn) )
        => getResPatternName(calls[c].pattern) \in clients[calls[c].subOn].subs

(* C19: isExplicitlyTerminated is false on a new client, only close changes
   it, and once true it stays true; while it is true every invocation of the
   retry strategy returns undefined, for handles created by a later connect
   too and whatever the attempt count, the error and the retry options. *)
C19_TerminationFlag ==
    /\ ~isExplicitlyTerminated
    /\ [][/\ isExplicitlyTerminated => isExplicitlyTerminated'
          /\ isExplicitlyTerminated' # isExplicitlyTerminated => ret'.op = "close"
          /\ (ret'.op = "retry" /\ isExplicitlyTerminated) => ret'.value = RetUndefined]_vars

\* after a close, a retry on a handle of the connect that followed it, with
\* options under which the strategy would otherwise have returned a delay
C19_Witness ==
    /\ ret.op = "retry"
    /\ isExplicitlyTerminated
    /\ ret.value = RetUndefined
    /\ Truthy(subClient)
    /\ OwnerOf(subClient.h) = ret.a
    /\ ret.attempt = 1
    /\ ~Falsy(options.retryAttempts)

(* C20: a publish that reports an error through the callback and returns no
   teardown leaves the routing table as it was before the call, also when
   this.subClient is null (before connect or after close). *)
C20_NoEntryWithoutTeardown ==
    [][(ret'.op = "publish" /\ ~ret'.teardown) =>
          /\ ret'.cbErr = 1
          /\ routingMap' = routingMap]_vars

====
